---- MODULE Spec2Model ----
(***************************************************************************)
(* Model of the inventory / sales aggregation pipeline of data.py          *)
(* (fetch_all_products_with_sales and its callees), of its caller in      *)
(* app.py (main) and of the export in sheets.py (push_to_google_sheets).   *)
(*                                                                         *)
(* The catalog API is the environment: every page request is answered      *)
(* either by a transport failure, by a response holding an `errors` list,  *)
(* or by the requested slice of a finite data set whose items are drawn    *)
(* from small sets.  Decimal columns with one decimal (Avg Daily Sales,    *)
(* Reorder Level, Quantity to Order) are held in tenths, as integers.      *)
(***************************************************************************)
EXTENDS Integers, Sequences, FiniteSets, TLC

(***************************************************************************)
(* Bounds of the model.                                                    *)
(***************************************************************************)
\* page size used for every walk (products_limit, limit, orders_limit)
PageLimit == 2
\* largest number of items the API holds for one walk
MaxItems == 2
\* largest number of warehouses in a stock response
MaxWarehouses == 2
\* largest number of stock entries one warehouse holds
MaxStock == 3
\* largest number of suppliers returned by the suppliers query
MaxSuppliers == 2
\* largest number of days of the sales window when the metrics are checked alone
MaxDays == 4
\* largest number of sales tuples when the metrics are checked alone
MaxSales == 2

(***************************************************************************)
(* Program constants (defaults the dashboard passes to the entry point).   *)
(***************************************************************************)
DefaultLeadTime == 7
DefaultSafetyStock == 10
DefaultWindowDays == 30

(***************************************************************************)
(* Python values.                                                          *)
(***************************************************************************)
\* Python's None for values that are otherwise lists, dicts or DataFrames
NoneV == [tag |-> "None"]
Val(v) == [tag |-> "val", v |-> v]
IsNone(x) == x.tag = "None"

\* JSON null for a nested object, and for a string field
NULL == [null |-> TRUE]
NullStr == "null"
\* Python truthiness of a str-or-null field
Truthy(s) == s \notin {NullStr, ""}

\* dict.get(field, default) on a JSON object
Get(obj, field, default) == IF field \in DOMAIN obj THEN obj[field] ELSE default

\* str(id).strip().upper() on the product identifiers the API serves
Norm(id) ==
    CASE id = "p1" -> "P1"
      [] id = "P1" -> "P1"
      [] id = " p2 " -> "P2"
      [] id = "P2" -> "P2"
      [] id = "p9" -> "P9"
      [] OTHER -> id

\* int(supplier_id) succeeds (no ValueError)
IsIntString(id) == id \in {"1", "2"}

Min(a, b) == IF a < b THEN a ELSE b
Max(a, b) == IF a > b THEN a ELSE b

(***************************************************************************)
(* What the API can serve.                                                 *)
(***************************************************************************)
ProductA == [id |-> "p1", name |-> "Shirt", status |-> "ACTIVE",
             productNumber |-> "100", isBundle |-> FALSE]
ProductB == [id |-> "P1", name |-> "Shirt v2", status |-> "INACTIVE",
             productNumber |-> "101", isBundle |-> TRUE]
ProductC == [id |-> " p2 ", name |-> "Cap", status |-> "ACTIVE",
             productNumber |-> "200", isBundle |-> FALSE]

\* stock { productSize { description quantity } } of the SupplierVariants query
SupplierStock(d, q) == [productSize |-> [description |-> d, quantity |-> q]]

\* suppliedProductVariants items
VariantItems ==
    { [productVariant |-> [product |-> ProductA, productSizes |-> <<>>]],
      [productVariant |-> [product |-> ProductB,
          productSizes |-> << [stock |-> << SupplierStock("M", 2), SupplierStock("L", 1) >>],
                              [stock |-> <<>>],
                              [stock |-> << SupplierStock("M", 3) >>] >>]] }

\* suppliers { id name status }
Suppliers ==
    { [id |-> "1", name |-> "A", status |-> "ACTIVE"],
      [id |-> "2", name |-> "B", status |-> "ACTIVE"],
      [id |-> "x7", name |-> "X", status |-> "ACTIVE"] }

\* warehouses { stock { productSize { quantity size { name } productVariant { product } } } }
WarehouseStock(p, s, q) ==
    [productSize |-> [quantity |-> q, size |-> s, productVariant |-> [product |-> p]]]

StockItems ==
    { WarehouseStock(ProductA, [name |-> "M"], 3),
      WarehouseStock(ProductC, NULL, -1),
      WarehouseStock(NULL, [name |-> "M"], 1) }

\* products { id productNumber variants { unitCost { value } } }
CostItems ==
    { [id |-> "p1", productNumber |-> "100", variants |-> <<>>],
      [id |-> "P1", productNumber |-> "101",
       variants |-> << [unitCost |-> [value |-> 5]], [unitCost |-> [value |-> 9]] >>],
      [id |-> " p2 ", productNumber |-> "200", variants |-> << [unitCost |-> NULL] >>] }

\* orders { orderDate status lines { productVariant { product { id name } } size quantity } }
OrderLine(id, s, q) ==
    [productVariant |-> [product |-> [id |-> id, name |-> "n"]], size |-> s, quantity |-> q]

OrderItems ==
    { [status |-> "SHIPPED", lines |-> << OrderLine("p1", "M", 2) >>],
      [status |-> "SHIPPED",
       lines |-> << OrderLine(" p2 ", NullStr, 3),
                    [productVariant |-> NULL, size |-> "M", quantity |-> 1] >>],
      [status |-> "PENDING",
       lines |-> << OrderLine("p9", "M", 1),
                    [productVariant |-> [product |-> NULL], size |-> "M", quantity |-> 1] >>] }

\* all sequences over S of length exactly n, and of length at most n
SeqsOfLen(S, n) == [1..n -> S]
SeqsUpTo(S, n) == UNION { SeqsOfLen(S, k) : k \in 0..n }

\* what a request ends in
Outcomes == {"ok", "transport", "errors"}

\* number of items of the n-th slice of `limit` items of a data set of `count` items
SliceLen(count, limit, n) == Max(0, Min(limit, count - (n - 1) * limit))


(***************************************************************************)
(* State.                                                                  *)
(***************************************************************************)
VARIABLES
    pc,                \* position in fetch_all_products_with_sales and its callees
    from_date,         \* from_date_str, as a day number
    to_date,           \* to_date_str, as a day number
    lead_time,
    safety_stock,
    only_shipped,
    suppliers,         \* the list fetch_all_suppliers returned
    supplier_idx,      \* position of `for supplier in suppliers`
    page,              \* page / orders_page of the running walk
    variants,          \* variants gathered by fetch_supplied_product_variants
    suppliers_data,    \* dict (ProductID, Size) -> inventory record
    cost_dict,         \* dict ProductID -> unit cost, or None
    products_df,       \* what fetch_all_products returned
    sales_data,        \* list of sales tuples, or None
    sales_summary_df,
    merged_df,
    result,            \* what fetch_all_products_with_sales returned or raised
    reported,          \* what main showed to the user
    total,             \* API: number of items of the data set being walked
    wh_total,          \* API: number of stock entries of each warehouse
    failed,            \* history: the stages one of whose requests failed, and
                       \* "stock_record" when a stock entry could not be read
    failed_page,       \* history: page of the failing request of the last walk, 0 if none
    gathered,          \* history: number of records gathered by the running walk
    observed,          \* history: (ProductID, Size) -> sum of the quantities the API reported
    last_request,      \* history: the last page request issued and what it returned
    warnings,          \* the supplier ids st.warning was called with
    cost_page,         \* history: the products of the last page of the costs walk
    sheet_df,          \* the table push_to_google_sheets wrote
    supplied           \* history: the (supplier name, variants) pairs reconciled so far

inputs == <<from_date, to_date, lead_time, safety_stock, only_shipped>>
walk == <<page, total, failed_page, gathered>>
tables == <<sales_summary_df, merged_df>>
vars == <<pc, from_date, to_date, lead_time, safety_stock, only_shipped, suppliers,
          supplier_idx, page, variants, suppliers_data, cost_dict, products_df,
          sales_data, sales_summary_df, merged_df, result, reported, total, wh_total,
          failed, failed_page, gathered, observed, last_request, warnings, cost_page, sheet_df,
          supplied>>

\* the request for `page` of a walk over a data set of `count` items, which was
\* answered with `items` items (ok), `records` of them well-formed records, or
\* failed (~ok); `last` when the walk issued no request after it
Request(stage, p, count, items, records, ok, last) ==
    [stage |-> stage, page |-> p, total |-> count, items |-> items,
     records |-> records, ok |-> ok, last |-> last]

NoRequest == Request("none", 0, 0, 0, 0, TRUE, TRUE)

\* pd.DataFrame(): no columns, no rows
EmptyDataFrame == [columns |-> {}, rows |-> <<>>]
\* DataFrame.empty
IsEmptyDf(df) == df.rows = <<>> \/ df.columns = {}

Pending == [tag |-> "pending"]

\* a dict with no entries
EmptyDict == <<>>

Locals ==
    /\ suppliers = <<>>
    /\ supplier_idx = 0
    /\ page = 0
    /\ variants = <<>>
    /\ suppliers_data = EmptyDict
    /\ cost_dict = Val(EmptyDict)
    /\ sales_summary_df = EmptyDataFrame
    /\ merged_df = EmptyDataFrame
    /\ result = Pending
    /\ reported = "nothing"
    /\ total = 0
    /\ wh_total = <<>>
    /\ failed = {}
    /\ failed_page = 0
    /\ gathered = 0
    /\ observed = EmptyDict
    /\ last_request = NoRequest
    /\ warnings = {}
    /\ cost_page = <<>>
    /\ sheet_df = EmptyDataFrame
    /\ supplied = <<>>

\* the dashboard's call with its default settings
Init ==
    /\ pc = "fetch_all_suppliers"
    /\ from_date = 0
    /\ to_date = DefaultWindowDays
    /\ lead_time = DefaultLeadTime
    /\ safety_stock = DefaultSafetyStock
    /\ only_shipped \in BOOLEAN
    /\ products_df = Pending
    /\ sales_data = Val(<<>>)
    /\ Locals

(***************************************************************************)
(* Supplier-variant reconciler.                                            *)
(***************************************************************************)
InventoryRecord(product_id, product, supplier_name, balance, size) ==
    ("ProductID" :> product_id) @@ ("Product Name" :> product.name)
    @@ ("Product Number" :> product.productNumber) @@ ("Status" :> product.status)
    @@ ("Is Bundle" :> product.isBundle) @@ ("Supplier" :> supplier_name)
    @@ ("Stock Balance" :> balance) @@ ("Size" :> size)

\* variant of create_if_absent: a record already present is rewritten with the
\* attributes of the supplier at hand, its stock balance kept
create_or_replace(data, key, product, supplier_name) ==
    IF key \in DOMAIN data
    THEN [data EXCEPT ![key] = InventoryRecord(key[1], product, supplier_name,
                                               data[key]["Stock Balance"], key[2])]
    ELSE data @@ (key :> InventoryRecord(key[1], product, supplier_name, 0, key[2]))

\* `if key not in suppliers_data: suppliers_data[key] = {...}`
create_if_absent(data, key, product, supplier_name) ==
    IF key \in DOMAIN data THEN data
    ELSE data @@ (key :> InventoryRecord(key[1], product, supplier_name, 0, key[2]))

\* `for stock in stocks:` of the branch for variants with size entries
RECURSIVE add_stocks(_, _, _, _)
add_stocks(data, product, supplier_name, stocks) ==
    IF stocks = <<>> THEN data
    ELSE LET stock == Head(stocks)
             product_size == Get(stock, "productSize", EmptyDict)
             quantity == Get(stock, "quantity", 0)
             size_description == Get(product_size, "description", "N/A")
             key == <<Norm(product.id), size_description>>
             created == create_if_absent(data, key, product, supplier_name)
         IN add_stocks([created EXCEPT ![key]["Stock Balance"] = @ + quantity],
                       product, supplier_name, Tail(stocks))

\* `for size_entry in product_sizes:` of the branch for variants with size entries
RECURSIVE add_sizes(_, _, _, _)
add_sizes(data, product, supplier_name, product_sizes) ==
    IF product_sizes = <<>> THEN data
    ELSE add_sizes(add_stocks(data, product, supplier_name,
                              Get(Head(product_sizes), "stock", <<>>)),
                   product, supplier_name, Tail(product_sizes))

\* the body of `for variant in variants:`
reconcile_variant(data, supplier_name, variant) ==
    LET product == variant.productVariant.product
        product_sizes == Get(variant.productVariant, "productSizes", <<>>)
    IN IF product_sizes = <<>>
       THEN create_if_absent(data, <<Norm(product.id), "N/A">>, product, supplier_name)
       ELSE add_sizes(data, product, supplier_name, product_sizes)

RECURSIVE reconcile_variants(_, _, _)
reconcile_variants(data, supplier_name, vs) ==
    IF vs = <<>> THEN data
    ELSE reconcile_variants(reconcile_variant(data, supplier_name, Head(vs)),
                            supplier_name, Tail(vs))

(***************************************************************************)
(* History: the keys and quantities the API reported.                      *)
(***************************************************************************)
\* one more observation of `key` with the reported quantity `q`
Observe(obs, key, q) ==
    IF key \in DOMAIN obs THEN [obs EXCEPT ![key] = @ + q] ELSE obs @@ (key :> q)

RECURSIVE ObserveStocks(_, _, _)
ObserveStocks(obs, product, stocks) ==
    IF stocks = <<>> THEN obs
    ELSE ObserveStocks(Observe(obs, <<Norm(product.id), Head(stocks).productSize.description>>,
                               Head(stocks).productSize.quantity),
                       product, Tail(stocks))

RECURSIVE ObserveSizes(_, _, _)
ObserveSizes(obs, product, product_sizes) ==
    IF product_sizes = <<>> THEN obs
    ELSE ObserveSizes(ObserveStocks(obs, product, Head(product_sizes).stock),
                      product, Tail(product_sizes))

RECURSIVE ObserveVariants(_, _)
ObserveVariants(obs, vs) ==
    IF vs = <<>> THEN obs
    ELSE LET pv == Head(vs).productVariant
         IN ObserveVariants(
                IF pv.productSizes = <<>>
                THEN Observe(obs, <<Norm(pv.product.id), "N/A">>, 0)
                ELSE ObserveSizes(obs, pv.product, pv.productSizes),
                Tail(vs))


(***************************************************************************)
(* fetch_all_suppliers_and_variants.                                       *)
(***************************************************************************)
\* page sizes the walks are called with
products_limit == PageLimit
product_limit == PageLimit
cost_limit == PageLimit
orders_limit == PageLimit

\* the lists the suppliers query can return: no supplier twice
SupplierLists ==
    { l \in SeqsUpTo(Suppliers, MaxSuppliers) :
        \A i, j \in 1..Len(l) : i # j => l[i] # l[j] }

\* variant of ReturnNoneFromProducts: an empty table is returned instead of None
ReturnEmptyFromProducts ==
    /\ products_df' = Val(EmptyDataFrame)
    /\ result' = Val(EmptyDataFrame)
    /\ pc' = "returned"

\* variant of ReturnNoneFromProducts: the value returned names the failing page
ReturnFailureWithPage ==
    /\ products_df' = NoneV
    /\ result' = [tag |-> "None", page |-> page]
    /\ pc' = "returned"

\* a failing request below fetch_all_products makes the entry point return None
ReturnNoneFromProducts ==
    /\ products_df' = NoneV
    /\ result' = NoneV
    /\ pc' = "returned"

\* fetch_all_suppliers: one request, no paging
fetch_all_suppliers ==
    /\ pc = "fetch_all_suppliers"
    /\ \E outcome \in Outcomes :
         IF outcome = "ok"
         THEN \E fetched_suppliers \in SupplierLists :
                /\ suppliers' = fetched_suppliers
                /\ supplier_idx' = 1
                /\ pc' = "for_supplier"
                /\ UNCHANGED <<failed, products_df, result>>
         ELSE /\ failed' = failed \cup {"suppliers"}
              /\ ReturnNoneFromProducts
              /\ UNCHANGED <<suppliers, supplier_idx>>
    /\ UNCHANGED <<inputs, walk, tables, variants, suppliers_data, cost_dict, sales_data,
                   reported, wh_total, observed, last_request, warnings, cost_page, sheet_df, supplied>>

\* variant of invalid_supplier_id: the ValueError is not caught and the fetch fails
invalid_supplier_id_fatal ==
    /\ warnings' = warnings
    /\ products_df' = NoneV
    /\ result' = NoneV
    /\ pc' = "returned"
    /\ UNCHANGED <<supplier_idx, page, total, wh_total, suppliers, supplied>>

\* `except ValueError:` logger.error, st.warning and `continue`
invalid_supplier_id ==
    /\ warnings' = warnings \cup {suppliers[supplier_idx].id}
    /\ supplier_idx' = supplier_idx + 1
    /\ UNCHANGED <<pc, page, total, wh_total, suppliers, products_df, result, supplied>>

\* head of `for supplier in suppliers:` up to the call of fetch_supplied_product_variants
for_supplier ==
    /\ pc = "for_supplier"
    /\ IF supplier_idx > Len(suppliers)
       THEN \* return suppliers_data; fetch_all_products starts the stock walk
            /\ pc' = "fetch_stock"
            /\ page' = 1
            /\ wh_total' \in SeqsUpTo(0..MaxStock, MaxWarehouses)
            /\ suppliers' = <<>>
            /\ supplier_idx' = 0
            /\ supplied' = <<>>
            /\ UNCHANGED <<total, warnings, products_df, result>>
       ELSE IF ~IsIntString(suppliers[supplier_idx].id)
            THEN invalid_supplier_id
            ELSE /\ pc' = "fetch_variants"
                 /\ page' = 1
                 /\ total' \in 0..MaxItems
                 /\ UNCHANGED <<wh_total, suppliers, supplier_idx, warnings, products_df,
                                result, supplied>>
    /\ failed_page' = 0
    /\ gathered' = 0
    /\ UNCHANGED <<inputs, tables, variants, suppliers_data, cost_dict,
                   sales_data, reported, failed, observed, last_request, cost_page, sheet_df>>

\* what fetch_supplied_product_variants returns after a failing request (`break`)
variants_after_error(vs) == vs

\* variant of break_to_return_variants: the loop goes on after a failing request
continue_after_error == "fetch_variants"

\* where `break` in the except branches leads: out of `while True:`, to
\* `return variants` and the caller's reconciliation
break_to_return_variants == "reconcile"

\* one turn of `while True:` in fetch_supplied_product_variants
fetch_supplied_product_variants ==
    /\ pc = "fetch_variants"
    /\ \E outcome \in Outcomes :
         IF outcome = "ok"
         THEN \E fetched_variants \in
                    SeqsOfLen(VariantItems, SliceLen(total, products_limit, page)) :
                /\ variants' = variants \o fetched_variants
                /\ gathered' = Len(variants')
                /\ IF fetched_variants # <<>> /\ Len(fetched_variants) >= products_limit
                   THEN page' = page + 1 /\ pc' = pc
                   ELSE page' = page /\ pc' = "reconcile"
                /\ last_request' = Request("variants", page, total, Len(fetched_variants),
                                           Len(fetched_variants), TRUE, pc' # pc)
                /\ UNCHANGED <<failed, failed_page>>
         ELSE /\ failed' = failed \cup {"variants"}
              /\ failed_page' = page
              /\ variants' = variants_after_error(variants)
              /\ pc' = break_to_return_variants
              /\ last_request' = Request("variants", page, total, 0, 0, FALSE, pc' # pc)
              /\ UNCHANGED <<page, gathered>>
    /\ UNCHANGED <<inputs, tables, suppliers, supplier_idx, suppliers_data, cost_dict,
                   products_df, sales_data, result, reported, total, wh_total, observed,
                   warnings, cost_page, sheet_df, supplied>>

\* the rest of the body of `for supplier in suppliers:`
reconcile_supplier ==
    /\ pc = "reconcile"
    /\ suppliers_data' =
         IF variants = <<>> THEN suppliers_data
         ELSE reconcile_variants(suppliers_data, suppliers[supplier_idx].name, variants)
    /\ observed' = ObserveVariants(observed, variants)
    /\ supplied' = Append(supplied, [name |-> suppliers[supplier_idx].name,
                                      variants |-> variants])
    /\ variants' = <<>>
    /\ supplier_idx' = supplier_idx + 1
    /\ pc' = "for_supplier"
    /\ UNCHANGED <<inputs, walk, tables, suppliers, cost_dict, products_df, sales_data,
                   result, reported, wh_total, failed, last_request, warnings, cost_page, sheet_df>>


(***************************************************************************)
(* fetch_all_products: the warehouse stock walk.                           *)
(***************************************************************************)
\* variant of merge_stock_entry: the product identifier is not normalised
merge_stock_entry_raw_id(data, stock_entry) ==
    LET product_info == stock_entry.productSize.productVariant.product
        product_id == product_info.id
        quantity == stock_entry.productSize.quantity
        size_name == IF stock_entry.productSize.size # NULL
                     THEN stock_entry.productSize.size.name
                     ELSE "N/A"
        key == <<product_id, size_name>>
    IN IF key \in DOMAIN data
       THEN [data EXCEPT ![key]["Stock Balance"] = @ + quantity]
       ELSE data @@ (key :> InventoryRecord(product_id, product_info, "No Supplier",
                                            quantity, size_name))

\* variant of merge_stock_entry: an existing record is rebuilt from the entry
merge_stock_entry_overwrite(data, stock_entry) ==
    LET product_info == stock_entry.productSize.productVariant.product
        product_id == Norm(product_info.id)
        quantity == stock_entry.productSize.quantity
        size_name == IF stock_entry.productSize.size # NULL
                     THEN stock_entry.productSize.size.name
                     ELSE "N/A"
        key == <<product_id, size_name>>
    IN IF key \in DOMAIN data
       THEN [data EXCEPT ![key] = InventoryRecord(product_id, product_info, "No Supplier",
                                                  data[key]["Stock Balance"] + quantity,
                                                  size_name)]
       ELSE data @@ (key :> InventoryRecord(product_id, product_info, "No Supplier",
                                            quantity, size_name))

\* the body of `for stock_entry in stock_entries:`
merge_stock_entry(data, stock_entry) ==
    LET product_info == stock_entry.productSize.productVariant.product
        product_id == Norm(product_info.id)
        quantity == stock_entry.productSize.quantity
        size_name == IF stock_entry.productSize.size # NULL
                     THEN stock_entry.productSize.size.name
                     ELSE "N/A"
        key == <<product_id, size_name>>
    IN IF key \in DOMAIN data
       THEN [data EXCEPT ![key]["Stock Balance"] = @ + quantity]
       ELSE data @@ (key :> InventoryRecord(product_id, product_info, "No Supplier",
                                            quantity, size_name))

RECURSIVE merge_stock_entries(_, _)
merge_stock_entries(data, stock_entries) ==
    IF stock_entries = <<>> THEN data
    ELSE merge_stock_entries(merge_stock_entry(data, Head(stock_entries)),
                             Tail(stock_entries))

\* `for warehouse in warehouses:`
RECURSIVE merge_warehouses(_, _)
merge_warehouses(data, warehouses) ==
    IF warehouses = <<>> THEN data
    ELSE merge_warehouses(merge_stock_entries(data, Get(Head(warehouses), "stock", <<>>)),
                          Tail(warehouses))

\* the key and quantity the API reported in a stock entry
StockKey(stock_entry) ==
    <<Norm(stock_entry.productSize.productVariant.product.id),
      IF stock_entry.productSize.size # NULL THEN stock_entry.productSize.size.name
      ELSE "N/A">>

RECURSIVE ObserveEntries(_, _)
ObserveEntries(obs, stock_entries) ==
    IF stock_entries = <<>> THEN obs
    ELSE ObserveEntries(Observe(obs, StockKey(Head(stock_entries)),
                                Head(stock_entries).productSize.quantity),
                        Tail(stock_entries))

RECURSIVE ObserveWarehouses(_, _)
ObserveWarehouses(obs, warehouses) ==
    IF warehouses = <<>> THEN obs
    ELSE ObserveWarehouses(ObserveEntries(obs, Head(warehouses).stock), Tail(warehouses))

RECURSIVE CountEntries(_)
CountEntries(warehouses) ==
    IF warehouses = <<>> THEN 0
    ELSE Len(Head(warehouses).stock) + CountEntries(Tail(warehouses))

\* the number of stock entries the API holds, all warehouses together
RECURSIVE SumOf(_)
SumOf(counts) == IF counts = <<>> THEN 0 ELSE Head(counts) + SumOf(Tail(counts))

\* the responses to the stock query for `page`: each warehouse serves its own slice
WarehousePages(counts, limit, n) ==
    { [i \in 1..Len(counts) |-> [stock |-> w[i]]] :
        w \in { x \in [1..Len(counts) -> SeqsUpTo(StockItems, limit)] :
                  \A i \in 1..Len(counts) : Len(x[i]) = SliceLen(counts[i], limit, n) } }

\* `len(warehouses[0].get('stock', [])) < limit`
last_stock_page(warehouses, limit) == Len(Get(warehouses[1], "stock", <<>>)) < limit

\* `stock_entry['productSize']['productVariant']['product']` and
\* `product_info['id']` raise TypeError on a null product variant or product
raises_TypeError(stock_entry) ==
    \/ stock_entry.productSize.productVariant = NULL
    \/ stock_entry.productSize.productVariant.product = NULL

\* some stock entry of the response raises in `for stock_entry in stock_entries:`
some_entry_raises(warehouses) ==
    \E i \in 1..Len(warehouses) : \E j \in 1..Len(warehouses[i].stock) :
        raises_TypeError(warehouses[i].stock[j])

\* history: the stock entries of a response that name a product
RECURSIVE SoundEntries(_)
SoundEntries(warehouses) ==
    IF warehouses = <<>> THEN 0
    ELSE Cardinality({ j \in 1..Len(Head(warehouses).stock) :
                         ~raises_TypeError(Head(warehouses).stock[j]) })
         + SoundEntries(Tail(warehouses))

\* one turn of `while True:` in fetch_all_products
fetch_all_products ==
    /\ pc = "fetch_stock"
    /\ \E outcome \in Outcomes :
         IF outcome = "ok"
         THEN \E warehouses \in WarehousePages(wh_total, product_limit, page) :
                IF some_entry_raises(warehouses)
                THEN \* except Exception: return None
                     /\ failed' = failed \cup {"stock_record"}
                     /\ failed_page' = page
                     /\ last_request' = Request("stock", page, SumOf(wh_total),
                                                CountEntries(warehouses),
                                                SoundEntries(warehouses), TRUE, TRUE)
                     /\ ReturnNoneFromProducts
                     /\ UNCHANGED <<suppliers_data, observed, gathered, page, total,
                                    wh_total>>
                ELSE /\ suppliers_data' = merge_warehouses(suppliers_data, warehouses)
                     /\ observed' = ObserveWarehouses(observed, warehouses)
                     /\ IF warehouses # <<>> /\ ~last_stock_page(warehouses, product_limit)
                        THEN /\ page' = page + 1
                             /\ gathered' = gathered + CountEntries(warehouses)
                             /\ UNCHANGED <<pc, total, wh_total>>
                        ELSE \* break: fetch_all_product_costs starts
                             /\ page' = 1
                             /\ gathered' = 0
                             /\ pc' = "fetch_costs"
                             /\ total' \in 0..MaxItems
                             /\ wh_total' = <<>>
                     /\ last_request' = Request("stock", page, SumOf(wh_total),
                                                CountEntries(warehouses),
                                                SoundEntries(warehouses), TRUE, pc' # pc)
                     /\ UNCHANGED <<failed, failed_page, products_df, result>>
         ELSE /\ failed' = failed \cup {"stock"}
              /\ failed_page' = page
              /\ last_request' = Request("stock", page, SumOf(wh_total), 0, 0, FALSE, TRUE)
              /\ ReturnNoneFromProducts
              /\ UNCHANGED <<suppliers_data, observed, gathered, page, total, wh_total>>
    /\ UNCHANGED <<inputs, tables, suppliers, supplier_idx, variants, cost_dict,
                   sales_data, reported, warnings, cost_page, sheet_df, supplied>>

(***************************************************************************)
(* fetch_all_product_costs.                                                *)
(***************************************************************************)
\* variant of add_cost: the unit cost of the last listed variant is taken
add_cost_last_variant(costs, p) ==
    LET product_id == Norm(p.id)
        p_variants == Get(p, "variants", <<>>)
        cost_value == IF /\ p_variants # <<>>
                         /\ "unitCost" \in DOMAIN p_variants[Len(p_variants)]
                         /\ p_variants[Len(p_variants)].unitCost # NULL
                      THEN Get(p_variants[Len(p_variants)].unitCost, "value", 0)
                      ELSE 0
    IN IF product_id \in DOMAIN costs
       THEN [costs EXCEPT ![product_id] = cost_value]
       ELSE costs @@ (product_id :> cost_value)

\* the body of `for p in products:`
add_cost(costs, p) ==
    LET product_id == Norm(p.id)
        p_variants == Get(p, "variants", <<>>)
        cost_value == IF /\ p_variants # <<>>
                         /\ "unitCost" \in DOMAIN p_variants[1]
                         /\ p_variants[1].unitCost # NULL
                      THEN Get(p_variants[1].unitCost, "value", 0)
                      ELSE 0
    IN IF product_id \in DOMAIN costs
       THEN [costs EXCEPT ![product_id] = cost_value]
       ELSE costs @@ (product_id :> cost_value)

RECURSIVE add_costs(_, _)
add_costs(costs, products) ==
    IF products = <<>> THEN costs
    ELSE add_costs(add_cost(costs, Head(products)), Tail(products))

\* one turn of `while True:` in fetch_all_product_costs
fetch_all_product_costs ==
    /\ pc = "fetch_costs"
    /\ \E outcome \in Outcomes :
         IF outcome = "ok"
         THEN \E products \in SeqsOfLen(CostItems, SliceLen(total, cost_limit, page)) :
                /\ cost_dict' = Val(add_costs(cost_dict.v, products))
                /\ cost_page' = products
                /\ gathered' = gathered + Len(products)
                /\ IF products # <<>> /\ Len(products) >= cost_limit
                   THEN page' = page + 1 /\ pc' = pc
                   ELSE page' = page /\ pc' = "build_df"
                /\ last_request' = Request("costs", page, total, Len(products),
                                           Len(products), TRUE, pc' # pc)
                /\ UNCHANGED <<failed, failed_page>>
         ELSE /\ failed' = failed \cup {"costs"}
              /\ failed_page' = page
              /\ cost_dict' = NoneV
              /\ cost_page' = <<>>
              /\ last_request' = Request("costs", page, total, 0, 0, FALSE, TRUE)
              /\ pc' = "build_df"
              /\ UNCHANGED <<page, gathered>>
    /\ UNCHANGED <<inputs, tables, suppliers, supplier_idx, variants, suppliers_data,
                   products_df, sales_data, result, reported, total, wh_total, observed,
                   warnings, sheet_df, supplied>>


(***************************************************************************)
(* fetch_all_products: the inventory table.                                *)
(***************************************************************************)
\* the elements of a set in a fixed order (the order of rows is not modelled)
RECURSIVE SetToSeq(_)
SetToSeq(S) ==
    IF S = {} THEN <<>>
    ELSE LET x == CHOOSE y \in S : TRUE IN <<x>> \o SetToSeq(S \ {x})

\* list(d.values())
dict_values(d) == LET ks == SetToSeq(DOMAIN d) IN [i \in 1..Len(ks) |-> d[ks[i]]]

InventoryColumns ==
    {"ProductID", "Product Name", "Product Number", "Status", "Is Bundle", "Supplier",
     "Stock Balance", "Size"}

\* cost_dict.get(pid, 0.0)
cost_of(costs, pid) == IF pid \in DOMAIN costs THEN costs[pid] ELSE 0

\* lines 423-444: the DataFrame of the inventory records with their unit cost
\* (the column "Inköpspris" is written "Inkopspris")
build_products_df(data, costs) ==
    LET all_product_data == dict_values(data)
        cd == IF IsNone(costs) THEN EmptyDict ELSE costs.v
    IN IF all_product_data = <<>> THEN EmptyDataFrame
       ELSE [columns |-> InventoryColumns \cup {"Inkopspris"},
             rows |-> [i \in 1..Len(all_product_data) |->
                         all_product_data[i]
                         @@ ("Inkopspris" :> cost_of(cd, all_product_data[i]["ProductID"]))]]

\* the end of fetch_all_products and the return to fetch_all_products_with_sales
fetch_all_products_return ==
    /\ pc = "build_df"
    /\ products_df' = Val(build_products_df(suppliers_data, cost_dict))
    /\ pc' = "fetch_sales"
    /\ page' = 1
    /\ total' \in 0..MaxItems
    /\ failed_page' = 0
    /\ gathered' = 0
    /\ suppliers_data' = EmptyDict
    /\ cost_dict' = Val(EmptyDict)
    /\ observed' = EmptyDict
    /\ cost_page' = <<>>
    /\ UNCHANGED <<inputs, tables, suppliers, supplier_idx, variants, sales_data, result,
                   reported, wh_total, failed, last_request, warnings, sheet_df, supplied>>

(***************************************************************************)
(* fetch_sales_data.                                                       *)
(***************************************************************************)
SalesTuple(product_id, size, quantity) ==
    ("ProductID" :> product_id) @@ ("Size" :> size) @@ ("Quantity Sold" :> quantity)

\* `for line in lines:`
RECURSIVE sales_of_lines(_)
sales_of_lines(lines) ==
    IF lines = <<>> THEN <<>>
    ELSE LET line == Head(lines)
             product_variant == Get(line, "productVariant", NULL)
             product == IF product_variant = NULL THEN NULL
                        ELSE Get(product_variant, "product", NULL)
         IN IF product_variant = NULL \/ product = NULL
            THEN sales_of_lines(Tail(lines))
            ELSE << SalesTuple(Norm(product.id),
                               IF Truthy(line.size) THEN line.size ELSE "N/A",
                               Get(line, "quantity", 1)) >>
                 \o sales_of_lines(Tail(lines))

\* `for order in orders:`
RECURSIVE sales_of_orders(_, _)
sales_of_orders(orders, shipped_only) ==
    IF orders = <<>> THEN <<>>
    ELSE IF shipped_only /\ Get(Head(orders), "status", NullStr) # "SHIPPED"
         THEN sales_of_orders(Tail(orders), shipped_only)
         ELSE sales_of_lines(Get(Head(orders), "lines", <<>>))
              \o sales_of_orders(Tail(orders), shipped_only)

\* history: the order lines of a page that name a product variant and a
\* product, in the orders the status filter lets through
RECURSIVE SoundLines(_, _)
SoundLines(orders, shipped_only) ==
    IF orders = <<>> THEN 0
    ELSE (IF shipped_only /\ Head(orders).status # "SHIPPED" THEN 0
          ELSE Cardinality({ i \in 1..Len(Head(orders).lines) :
                    /\ Head(orders).lines[i].productVariant # NULL
                    /\ Head(orders).lines[i].productVariant.product # NULL }))
         + SoundLines(Tail(orders), shipped_only)

\* one turn of `while True:` in fetch_sales_data
fetch_sales_data ==
    /\ pc = "fetch_sales"
    /\ \E outcome \in Outcomes :
         IF outcome = "ok"
         THEN \E orders \in SeqsOfLen(OrderItems, SliceLen(total, orders_limit, page)) :
                /\ sales_data' = Val(sales_data.v \o sales_of_orders(orders, only_shipped))
                /\ gathered' = Len(sales_data'.v)
                /\ IF orders # <<>> /\ Len(orders) >= orders_limit
                   THEN page' = page + 1 /\ pc' = pc
                   ELSE page' = page /\ pc' = "process_sales_data"
                /\ last_request' = Request("orders", page, total, Len(orders),
                                           SoundLines(orders, only_shipped), TRUE,
                                           pc' # pc)
                /\ UNCHANGED <<failed, failed_page, result>>
         ELSE /\ failed' = failed \cup {"orders"}
              /\ failed_page' = page
              /\ last_request' = Request("orders", page, total, 0, 0, FALSE, TRUE)
              /\ sales_data' = NoneV
              /\ result' = NoneV
              /\ pc' = "returned"
              /\ UNCHANGED <<page, gathered>>
    /\ UNCHANGED <<inputs, tables, suppliers, supplier_idx, variants, suppliers_data,
                   cost_dict, products_df, reported, total, wh_total, observed, warnings,
                   cost_page, sheet_df, supplied>>


(***************************************************************************)
(* Rounding.  numpy rounds halves to the even neighbour; the model rounds  *)
(* the exact quotient n / d.                                               *)
(***************************************************************************)
RoundHalfEvenNat(n, d) ==
    LET q == n \div d
        r == n % d
    IN IF 2 * r < d THEN q
       ELSE IF 2 * r > d THEN q + 1
       ELSE IF q % 2 = 0 THEN q ELSE q + 1

\* round(n / d) for d > 0
RoundHalfEven(n, d) == IF n >= 0 THEN RoundHalfEvenNat(n, d) ELSE -RoundHalfEvenNat(-n, d)

(***************************************************************************)
(* process_sales_data.                                                     *)
(***************************************************************************)
SalesColumns == {"ProductID", "Size", "Quantity Sold", "Avg Daily Sales"}

RowKey(row) == <<row["ProductID"], row["Size"]>>

\* the sum of "Quantity Sold" over the tuples of one group
RECURSIVE group_sum(_, _)
group_sum(tuples, key) ==
    IF tuples = <<>> THEN 0
    ELSE (IF RowKey(Head(tuples)) = key THEN Head(tuples)["Quantity Sold"] ELSE 0)
         + group_sum(Tail(tuples), key)

\* (pd.to_datetime(to_date) - pd.to_datetime(from_date)).days + 1
days_in_range_of(from, to) == (to - from) + 1

\* variant of avg_daily_sales: the quotient is truncated, not rounded
avg_daily_sales_truncated(quantity_sold, days_in_range) ==
    (10 * quantity_sold) \div days_in_range

\* (Quantity Sold / days_in_range).round(1), in tenths
avg_daily_sales(quantity_sold, days_in_range) ==
    RoundHalfEven(10 * quantity_sold, days_in_range)

process_sales_data(tuples, from, to) ==
    IF tuples = <<>> THEN [columns |-> SalesColumns, rows |-> <<>>]
    ELSE LET keys == SetToSeq({ RowKey(tuples[i]) : i \in 1..Len(tuples) })
             days_in_range == days_in_range_of(from, to)
         IN [columns |-> SalesColumns,
             rows |-> [i \in 1..Len(keys) |->
                 LET q == group_sum(tuples, keys[i])
                 IN ("ProductID" :> keys[i][1]) @@ ("Size" :> keys[i][2])
                    @@ ("Quantity Sold" :> q)
                    @@ ("Avg Daily Sales" :> avg_daily_sales(q, days_in_range))]]

(***************************************************************************)
(* merge_product_and_sales_data.                                           *)
(***************************************************************************)
\* variant of joined_rows: how='inner', a left row without a match is dropped
joined_rows_inner(left_row, right_rows) ==
    LET Matches(r) == RowKey(r) = RowKey(left_row)
        matching == SelectSeq(right_rows, Matches)
    IN [i \in 1..Len(matching) |->
          left_row @@ ("Quantity Sold" :> matching[i]["Quantity Sold"])
                   @@ ("Avg Daily Sales" :> matching[i]["Avg Daily Sales"])]

\* the rows pd.merge(how='left') yields for one left row, NaN filled with 0
joined_rows(left_row, right_rows) ==
    LET Matches(r) == RowKey(r) = RowKey(left_row)
        matching == SelectSeq(right_rows, Matches)
    IN IF matching = <<>>
       THEN << left_row @@ ("Quantity Sold" :> 0) @@ ("Avg Daily Sales" :> 0) >>
       ELSE [i \in 1..Len(matching) |->
               left_row @@ ("Quantity Sold" :> matching[i]["Quantity Sold"])
                        @@ ("Avg Daily Sales" :> matching[i]["Avg Daily Sales"])]

RECURSIVE left_join(_, _)
left_join(left_rows, right_rows) ==
    IF left_rows = <<>> THEN <<>>
    ELSE joined_rows(Head(left_rows), right_rows) \o left_join(Tail(left_rows), right_rows)

merge_product_and_sales_data(products, sales_summary) ==
    IF IsEmptyDf(products) THEN EmptyDataFrame
    ELSE [columns |-> products.columns \cup sales_summary.columns,
          rows |-> left_join(products.rows, sales_summary.rows)]

(***************************************************************************)
(* calculate_reorder_metrics.                                              *)
(***************************************************************************)
\* "Reorder Level" in tenths
reorder_level(avg_sales, lead, safety) == (avg_sales * lead) + 10 * safety

\* variant of quantity_to_order: the difference is not clamped at 0
quantity_to_order_unclamped(level, stock_balance) == level - 10 * stock_balance

\* "Quantity to Order" in tenths: max(Reorder Level - Stock Balance, 0)
quantity_to_order(level, stock_balance) == Max(level - 10 * stock_balance, 0)

calculate_reorder_metrics(df, lead, safety) ==
    IF IsEmptyDf(df) THEN df
    ELSE [columns |-> df.columns \cup {"Reorder Level", "Quantity to Order", "Need to Order"},
          rows |-> [i \in 1..Len(df.rows) |->
              LET level == reorder_level(df.rows[i]["Avg Daily Sales"], lead, safety)
                  qty == quantity_to_order(level, df.rows[i]["Stock Balance"])
              IN df.rows[i] @@ ("Reorder Level" :> level) @@ ("Quantity to Order" :> qty)
                 @@ ("Need to Order" :> IF qty > 0 THEN "Yes" ELSE "No")]]

(***************************************************************************)
(* fetch_all_products_with_sales: Days to Zero, and the caller.            *)
(***************************************************************************)
\* the value of "Days to Zero" after astype(str) and replace('', None)
NoneStr == "None"

\* variant of days_to_zero: the mask does not test the stock balance
days_to_zero_unguarded(stock_balance, avg_sales) ==
    IF avg_sales > 0
    THEN ToString(RoundHalfEven(10 * stock_balance, avg_sales))
    ELSE NoneStr

\* lines 663-675 for one row
days_to_zero(stock_balance, avg_sales) ==
    IF avg_sales > 0 /\ stock_balance >= 0
    THEN ToString(RoundHalfEven(10 * stock_balance, avg_sales))
    ELSE NoneStr

add_days_to_zero(df) ==
    [columns |-> df.columns \cup {"Days to Zero"},
     rows |-> [i \in 1..Len(df.rows) |->
                 df.rows[i] @@ ("Days to Zero" :>
                     days_to_zero(df.rows[i]["Stock Balance"], df.rows[i]["Avg Daily Sales"]))]]

KeyError == [tag |-> "KeyError"]

\* lines 656-677; merged_df['Avg Daily Sales'] raises KeyError on a frame without it
with_sales_result(merged) ==
    IF "Avg Daily Sales" \notin (merged.columns \cup {"Days to Zero"}) THEN KeyError
    ELSE Val(add_days_to_zero(merged))

\* lines 656-677 of fetch_all_products_with_sales, after both fetches succeeded
compute_metrics ==
    /\ pc = "process_sales_data"
    /\ sales_summary_df' = process_sales_data(sales_data.v, from_date, to_date)
    /\ merged_df' = calculate_reorder_metrics(
                        merge_product_and_sales_data(products_df.v, sales_summary_df'),
                        lead_time, safety_stock)
    /\ result' = with_sales_result(merged_df')
    /\ pc' = "returned"
    /\ page' = 0
    /\ total' = 0
    /\ gathered' = 0
    /\ UNCHANGED <<inputs, failed_page, suppliers, supplier_idx, variants, suppliers_data,
                   cost_dict, products_df, sales_data, reported, wh_total, failed,
                   observed, last_request, warnings, cost_page, sheet_df, supplied>>

\* variant of report_of: only `merged_df.empty` is tested, which raises on None
report_of_empty_only(res) ==
    IF res = KeyError \/ IsNone(res) THEN "exception"
    ELSE IF ~IsEmptyDf(res.v) THEN "success"
    ELSE "error"

\* app.py lines 103-259: what the user is shown
report_of(res) ==
    IF res = KeyError THEN "exception"
    ELSE IF ~IsNone(res) /\ ~IsEmptyDf(res.v) THEN "success"
    ELSE "error"

main ==
    /\ pc = "returned"
    /\ reported' = report_of(result)
    /\ pc' = "done"
    /\ UNCHANGED <<inputs, walk, tables, suppliers, supplier_idx, variants,
                   suppliers_data, cost_dict, products_df, sales_data, result,
                   wh_total, failed, observed, last_request, warnings, cost_page, sheet_df, supplied>>

(***************************************************************************)
(* sheets.py: push_to_google_sheets, called by main with the table shown.  *)
(***************************************************************************)
\* a cell holding the str '' and a cell holding an int
EmptyCell == [tag |-> "str", v |-> ""]
IntCell(n) == [tag |-> "int", v |-> n]

\* variant of export_days_to_zero: the rule of the pipeline, which also tests
\* the stock balance
export_days_to_zero_guarded(stock_balance, avg_sales) ==
    IF avg_sales > 0 /\ stock_balance >= 0
    THEN IntCell(RoundHalfEven(10 * stock_balance, avg_sales))
    ELSE EmptyCell

\* the lambda of lines 62-67 for one row (both columns are numbers)
export_days_to_zero(stock_balance, avg_sales) ==
    IF avg_sales = 0 THEN EmptyCell
    ELSE IntCell(RoundHalfEven(10 * stock_balance, avg_sales))

\* df['Days to Zero'] = df.apply(...): the column is written anew
export_table(df) ==
    [columns |-> df.columns \cup {"Days to Zero"},
     rows |-> [i \in 1..Len(df.rows) |->
                 [df.rows[i] EXCEPT !["Days to Zero"] =
                     export_days_to_zero(df.rows[i]["Stock Balance"],
                                         df.rows[i]["Avg Daily Sales"])]]]

\* the push button of the dashboard, which is shown with the table
push_to_google_sheets ==
    /\ pc = "done"
    /\ reported = "success"
    /\ sheet_df' = export_table(result.v)
    /\ pc' = "exported"
    /\ UNCHANGED <<inputs, walk, tables, suppliers, supplier_idx, variants,
                   suppliers_data, cost_dict, products_df, sales_data, result, reported,
                   wh_total, failed, observed, last_request, warnings, cost_page,
                   supplied>>

Next ==
    \/ fetch_all_suppliers
    \/ for_supplier
    \/ fetch_supplied_product_variants
    \/ reconcile_supplier
    \/ fetch_all_products
    \/ fetch_all_product_costs
    \/ fetch_all_products_return
    \/ fetch_sales_data
    \/ compute_metrics
    \/ main
    \/ push_to_google_sheets

Spec == Init /\ [][Next]_vars

\* the pipeline is one sequential computation whose requests all return: a
\* step that can be taken is taken
SpecFair == Spec /\ WF_vars(Next)

(***************************************************************************)
(* The four page walks alone, each from the state in which the pipeline    *)
(* starts it when nothing was gathered before it: the variants walk of the *)
(* first supplier; the warehouse stock walk after an empty list of         *)
(* suppliers, followed by the costs walk; the costs walk and the orders    *)
(* walk after walks that found nothing.                                    *)
(***************************************************************************)
InitWalks ==
    /\ from_date = 0
    /\ to_date = DefaultWindowDays
    /\ lead_time = DefaultLeadTime
    /\ safety_stock = DefaultSafetyStock
    /\ only_shipped \in BOOLEAN
    /\ supplier_idx \in {0, 1}
    /\ suppliers \in (IF supplier_idx = 1
                       THEN { <<x>> : x \in { y \in Suppliers : IsIntString(y.id) } }
                       ELSE { <<>> })
    /\ pc \in (IF supplier_idx = 1 THEN {"fetch_variants"}
                ELSE {"fetch_stock", "fetch_costs", "fetch_sales"})
    /\ page = 1
    /\ total \in (IF pc = "fetch_stock" THEN {0} ELSE 0..MaxItems)
    /\ wh_total \in (IF pc = "fetch_stock" THEN SeqsUpTo(0..MaxStock, MaxWarehouses)
                      ELSE { <<>> })
    /\ last_request = (CASE pc = "fetch_costs" -> Request("stock", 1, 0, 0, 0, TRUE, TRUE)
                         [] pc = "fetch_sales" -> Request("costs", 1, 0, 0, 0, TRUE, TRUE)
                         [] OTHER -> NoRequest)
    /\ products_df = (IF pc = "fetch_sales" THEN Val(EmptyDataFrame) ELSE Pending)
    /\ sales_data = Val(<<>>)
    /\ variants = <<>>
    /\ suppliers_data = EmptyDict
    /\ cost_dict = Val(EmptyDict)
    /\ sales_summary_df = EmptyDataFrame
    /\ merged_df = EmptyDataFrame
    /\ result = Pending
    /\ reported = "nothing"
    /\ failed = {}
    /\ failed_page = 0
    /\ gathered = 0
    /\ observed = EmptyDict
    /\ warnings = {}
    /\ cost_page = <<>>
    /\ sheet_df = EmptyDataFrame
    /\ supplied = <<>>

NextWalks ==
    \/ fetch_supplied_product_variants
    \/ fetch_all_products
    \/ fetch_all_product_costs
    \/ fetch_sales_data

\* a request always returns, with a response or with a failure, and the loop
\* then takes its next step
SpecWalks == InitWalks /\ [][NextWalks]_vars /\ WF_vars(NextWalks)


(***************************************************************************)
(* The metrics alone: process_sales_data, merge_product_and_sales_data,    *)
(* calculate_reorder_metrics and Days to Zero applied to inventory tables  *)
(* and sales tuples drawn from bounded sets.                               *)
(***************************************************************************)
MetricKeys == { <<"P1", "M">>, <<"P2", "N/A">> }
MetricBalances == {-3, 0, 1, 20}
MetricQuantities == {1, 3}

MetricInventories ==
    { build_products_df([k \in K |-> InventoryRecord(k[1], ProductA, "A", b[k], k[2])],
                        Val(EmptyDict)) :
        K \in SUBSET MetricKeys, b \in [MetricKeys -> MetricBalances] }

MetricSalesTuples ==
    { SalesTuple(k[1], k[2], q) : k \in { <<"P1", "M">>, <<"P9", "M">> },
                                  q \in MetricQuantities }

InitMetrics ==
    /\ pc = "process_sales_data"
    /\ from_date = 0
    /\ to_date \in 0..(MaxDays - 1)
    /\ lead_time \in {1, DefaultLeadTime}
    /\ safety_stock \in {0, DefaultSafetyStock}
    /\ only_shipped = TRUE
    /\ products_df \in { Val(df) : df \in MetricInventories }
    /\ sales_data \in { Val(t) : t \in SeqsUpTo(MetricSalesTuples, MaxSales) }
    /\ Locals

NextMetrics ==
    \/ compute_metrics
    \/ main
    \/ push_to_google_sheets

SpecMetrics == InitMetrics /\ [][NextMetrics]_vars


(***************************************************************************)
(* Properties.                                                             *)
(***************************************************************************)
Returned == pc \in {"returned", "done", "exported"}

\* the stages whose failure makes fetch_all_products_with_sales return None
FatalStages == {"suppliers", "stock", "orders"}

\* all that makes it return None: a failing request of those stages, or a
\* stock entry that cannot be read
FatalCauses == FatalStages \cup {"stock_record"}

C2_NoPartialRecordsAfterFailure ==
    /\ (pc = "reconcile" /\ failed_page > 1) => variants = <<>>
    /\ (pc = "build_df" /\ failed_page > 1) => IsNone(cost_dict)
    /\ (pc = "returned" /\ "orders" \in failed /\ failed_page > 1)
          => (IsNone(sales_data) /\ IsNone(result))
    /\ (pc = "returned" /\ "stock" \in failed /\ failed_page > 1)
          => (IsNone(products_df) /\ IsNone(result))

\* C3 as stated: when every fetch succeeded and the inventory table is empty,
\* the entry point returns an empty table: it neither returns None nor raises.
C3_EmptyInventoryReturnsEmptyTable ==
    (Returned /\ failed = {} /\ products_df.tag = "val" /\ IsEmptyDf(products_df.v))
        => (result.tag = "val" /\ IsEmptyDf(result.v))

Reconciled == pc \in {"fetch_costs", "build_df"}

\* C5 as stated: after both reconcilers have run, the stock balance of every
\* (ProductID, Size) key is the sum of every stock quantity the API reported
\* for that key in the supplier-variant listings and in the warehouse stock.
C5_StockBalanceIsSumOfReportedQuantities ==
    Reconciled =>
        /\ DOMAIN observed \subseteq DOMAIN suppliers_data
        /\ \A k \in DOMAIN observed : suppliers_data[k]["Stock Balance"] = observed[k]

\* the inventory map is being built
Aggregating ==
    pc \in {"for_supplier", "fetch_variants", "reconcile", "fetch_stock", "fetch_costs",
            "build_df"}

\* C6: during aggregation the inventory map holds one record for each key
\* observed so far and for no other key, the record of a key carries that
\* key's ProductID and Size, and no step of the aggregation removes a key.
C6_OneRecordPerObservedKey ==
    /\ [](Aggregating =>
            /\ DOMAIN suppliers_data = DOMAIN observed
            /\ \A k \in DOMAIN suppliers_data : RowKey(suppliers_data[k]) = k)
    /\ [][(Aggregating /\ Aggregating') =>
            (DOMAIN suppliers_data \subseteq DOMAIN suppliers_data')]_vars

\* C6 witness: a key created by the supplier reconciler was observed again in
\* the warehouse stock, next to a key only the warehouse stock holds.
C6_Witness ==
    /\ pc = "fetch_costs"
    /\ \E k \in DOMAIN suppliers_data :
          /\ suppliers_data[k]["Supplier"] # "No Supplier"
          /\ suppliers_data[k]["Stock Balance"] > 0
    /\ \E k \in DOMAIN suppliers_data : suppliers_data[k]["Supplier"] = "No Supplier"

Abs(x) == IF x < 0 THEN -x ELSE x

\* r is n / d (d > 0) rounded to the nearest integer, halves to the even one
IsRounded(r, n, d) ==
    /\ 2 * Abs(n - r * d) <= d
    /\ (2 * Abs(n - r * d) = d) => (r % 2 = 0)

Indices(rows) == 1..Len(rows)

\* C7: the merge is a left join on (ProductID, Size): every inventory key is
\* in exactly one merged row, every merged row has an inventory key, a merged
\* row with a sales summary carries its figures and one without carries
\* Quantity Sold 0 and Avg Daily Sales 0.0.
C7_MergeIsLeftJoin ==
    (Returned /\ products_df.tag = "val") =>
        LET inv == products_df.v.rows
            out == merged_df.rows
            sum == sales_summary_df.rows
        IN /\ \A i \in Indices(inv) :
                 Cardinality({ j \in Indices(out) : RowKey(out[j]) = RowKey(inv[i]) }) = 1
           /\ \A j \in Indices(out) : \E i \in Indices(inv) : RowKey(out[j]) = RowKey(inv[i])
           /\ \A j \in Indices(out) :
                 IF \E k \in Indices(sum) : RowKey(sum[k]) = RowKey(out[j])
                 THEN \E k \in Indices(sum) :
                        /\ RowKey(sum[k]) = RowKey(out[j])
                        /\ out[j]["Quantity Sold"] = sum[k]["Quantity Sold"]
                        /\ out[j]["Avg Daily Sales"] = sum[k]["Avg Daily Sales"]
                 ELSE /\ out[j]["Quantity Sold"] = 0
                      /\ out[j]["Avg Daily Sales"] = 0

\* C7 witness: a merge with a matched inventory row, an unmatched inventory
\* row and a sales summary whose key is in no inventory row.
C7_Witness ==
    /\ pc = "returned"
    /\ Len(merged_df.rows) = 2
    /\ \E j \in Indices(merged_df.rows) : merged_df.rows[j]["Quantity Sold"] > 0
    /\ \E j \in Indices(merged_df.rows) :
          \A k \in Indices(sales_summary_df.rows) :
             RowKey(sales_summary_df.rows[k]) # RowKey(merged_df.rows[j])
    /\ \E k \in Indices(sales_summary_df.rows) :
          \A j \in Indices(merged_df.rows) :
             RowKey(sales_summary_df.rows[k]) # RowKey(merged_df.rows[j])

\* C8: in every merged row the reorder level is average daily sales x lead
\* time + safety stock, and the quantity to order is the reorder level less
\* the stock balance when that is positive and 0 otherwise, so never negative.
C8_ReorderMetrics ==
    Returned =>
        \A j \in Indices(merged_df.rows) :
            LET row == merged_df.rows[j]
                level == row["Avg Daily Sales"] * lead_time + 10 * safety_stock
                short == level - 10 * row["Stock Balance"]
            IN /\ row["Reorder Level"] = level
               /\ row["Quantity to Order"] >= 0
               /\ short >= 0 => row["Quantity to Order"] = short
               /\ short < 0 => row["Quantity to Order"] = 0

\* C8 witness: a row whose stock balance exceeds its reorder level (no sales,
\* lead time 7, safety stock 10, stock 20: level 10.0, nothing to order).
C8_Witness ==
    /\ pc = "returned"
    /\ lead_time = DefaultLeadTime
    /\ safety_stock = DefaultSafetyStock
    /\ \E j \in Indices(merged_df.rows) :
          /\ merged_df.rows[j]["Stock Balance"] = 20
          /\ merged_df.rows[j]["Avg Daily Sales"] = 0
          /\ merged_df.rows[j]["Reorder Level"] = 100
          /\ merged_df.rows[j]["Quantity to Order"] = 0
          /\ merged_df.rows[j]["Need to Order"] = "No"

\* Days to Zero of a row is round(stock balance / average daily sales) >= 0
IsDaysToZero(row) ==
    \E n \in 0..(10 * row["Stock Balance"]) :
        /\ row["Days to Zero"] = ToString(n)
        /\ IsRounded(n, 10 * row["Stock Balance"], row["Avg Daily Sales"])

\* C9 as stated: in every returned row Days to Zero is empty exactly when
\* average daily sales is 0, and is round(stock balance / average daily sales)
\* otherwise.
C9_EmptyIffNoSales ==
    (Returned /\ result.tag = "val") =>
        \A j \in Indices(result.v.rows) :
            LET row == result.v.rows[j]
            IN row["Days to Zero"] = NoneStr <=> row["Avg Daily Sales"] = 0

\* C9 as amended: in every returned row Days to Zero is empty exactly when
\* average daily sales is not positive or the stock balance is negative;
\* otherwise it is round(stock balance / average daily sales), a non-negative
\* integer.
C9_EmptyIffNoSalesOrNegativeStock ==
    (Returned /\ result.tag = "val") =>
        \A j \in Indices(result.v.rows) :
            LET row == result.v.rows[j]
            IN IF row["Avg Daily Sales"] <= 0 \/ row["Stock Balance"] < 0
               THEN row["Days to Zero"] = NoneStr
               ELSE IsDaysToZero(row)

\* C9 witness: a returned row with sales and a negative stock balance, whose
\* Days to Zero is empty.
C9_Witness ==
    /\ pc = "returned"
    /\ result.tag = "val"
    /\ \E j \in Indices(result.v.rows) :
          /\ result.v.rows[j]["Avg Daily Sales"] > 0
          /\ result.v.rows[j]["Stock Balance"] < 0
          /\ result.v.rows[j]["Days to Zero"] = NoneStr

\* the sum of f over the set S of its arguments
RECURSIVE SumOver(_, _)
SumOver(f, S) ==
    IF S = {} THEN 0
    ELSE LET x == CHOOSE y \in S : TRUE IN f[x] + SumOver(f, S \ {x})

\* C10: process_sales_data yields one row for each distinct (ProductID, Size)
\* of the sales tuples and no other row; its Quantity Sold is the sum of the
\* quantities of the tuples of that key and its Avg Daily Sales is
\* Quantity Sold / D rounded to one decimal, D = (to - from) + 1 >= 1.
C10_SalesSummary ==
    (Returned /\ sales_data.tag = "val") =>
        LET tuples == sales_data.v
            sum == sales_summary_df.rows
            D == (to_date - from_date) + 1
            quantity == [i \in Indices(tuples) |-> tuples[i]["Quantity Sold"]]
        IN /\ D >= 1
           /\ { RowKey(sum[k]) : k \in Indices(sum) }
                = { RowKey(tuples[i]) : i \in Indices(tuples) }
           /\ \A k, l \in Indices(sum) : RowKey(sum[k]) = RowKey(sum[l]) => k = l
           /\ \A k \in Indices(sum) :
                 LET total_sold ==
                         SumOver(quantity, { i \in Indices(tuples) :
                                               RowKey(tuples[i]) = RowKey(sum[k]) })
                 IN /\ sum[k]["Quantity Sold"] = total_sold
                    /\ IsRounded(sum[k]["Avg Daily Sales"], 10 * total_sold, D)

\* C10 witness: two tuples of one key, 1 and 3, are summed to 4 over a 4-day
\* window, an average of 1.0 a day.
C10_Witness ==
    /\ pc = "returned"
    /\ to_date - from_date = 3
    /\ Len(sales_data.v) = 2
    /\ Len(sales_summary_df.rows) = 1
    /\ sales_summary_df.rows[1]["Quantity Sold"] = 4
    /\ sales_summary_df.rows[1]["Avg Daily Sales"] = 10

\* the positions at which a walk issues its next page request
WalkPcs == {"fetch_variants", "fetch_stock", "fetch_costs", "fetch_sales"}

\* a step that issues one page request: the request is for the cursor's page,
\* the walk goes on (to page + 1) only after a page of exactly `limit` items
\* returned without error, and it stops at a page of fewer than `limit` items
RequestStep(limit) ==
    /\ last_request'.page = page
    /\ (pc' = pc) => /\ page' = page + 1
                     /\ last_request'.ok
                     /\ last_request'.items = limit
    /\ (pc' # pc /\ last_request'.ok) => last_request'.items < limit
    /\ (last_request'.ok /\ last_request'.items < limit) => pc' # pc

\* a walk that ended without error over exactly m x limit items issued m + 1
\* requests, the last of which returned an empty page
ExactMultipleEndsEmpty(limit) ==
    (last_request.ok /\ last_request.last /\ last_request.total % limit = 0)
        => /\ last_request.page = (last_request.total \div limit) + 1
           /\ last_request.items = 0

\* C11 as stated: every one of the four walks (supplier variants, warehouse
\* stock, product costs, orders) starts at page 1, requests the pages in
\* increasing order without skipping or repeating one, requests page n + 1
\* only after page n returned exactly `limit` items without error, stops at
\* the first page of fewer than `limit` items, and so issues m + 1 requests
\* for a data set of exactly m x limit items, the last returning no item.
C11_EveryWalkPagesUntilShortPage ==
    /\ [][(pc' \in WalkPcs /\ pc' # pc) => page' = 1]_vars
    /\ [][(pc \in WalkPcs) => RequestStep(PageLimit)]_vars
    /\ [](last_request.stage # "none" => ExactMultipleEndsEmpty(PageLimit))

\* the same for the three walks whose page is one list of items (supplier
\* variants, product costs, orders)
ListWalksPageUntilShortPage ==
    /\ [][(pc' \in WalkPcs /\ pc' # pc) => page' = 1]_vars
    /\ [][(pc \in WalkPcs \ {"fetch_stock"}) => RequestStep(PageLimit)]_vars
    /\ [](last_request.stage \in {"variants", "costs", "orders"}
            => ExactMultipleEndsEmpty(PageLimit))

\* C12 as stated: a page that was answered without error never ends its fetch
\* in failure, whatever the shape of its records: an order line without a
\* product variant or product, or a warehouse stock entry without a product,
\* is skipped, and every other record of the page is gathered (the orders
\* walk gathers one sales tuple for each well-formed line, a line with a null
\* size under Size "N/A").
C12_DefectiveRecordsAreSkipped ==
    /\ [][(pc = "fetch_sales" /\ last_request'.ok) =>
            /\ ~IsNone(sales_data')
            /\ Len(sales_data'.v) = Len(sales_data.v) + last_request'.records
            /\ pc' # "returned"]_vars
    /\ [][(pc = "fetch_stock" /\ last_request'.ok) =>
            /\ products_df' # NoneV
            /\ pc' # "returned"]_vars

\* the orders part of it alone
OrderLinesAreSkipped ==
    [][(pc = "fetch_sales" /\ last_request'.ok) =>
            /\ ~IsNone(sales_data')
            /\ Len(sales_data'.v) = Len(sales_data.v) + last_request'.records
            /\ pc' # "returned"]_vars

\* the paginated stages whose failure reaches the caller of the entry point
SurfacingStages == {"stock", "orders"}

StockPageMerged == pc = "fetch_stock" /\ pc' \in {"fetch_stock", "fetch_costs"}

\* C14: when the warehouse stock walk merges the entries of a page, the record
\* of a key that was in the map changes in its stock balance only, which grows
\* by the quantities the page reported for that key (by nothing for a key the
\* page does not hold), and a key that was not in the map gets a record with
\* supplier "No Supplier" and the quantities the page reported for it as its
\* stock balance.
C14_WarehouseEntryFrame ==
    [][StockPageMerged =>
        /\ \A k \in DOMAIN suppliers_data :
              /\ k \in DOMAIN suppliers_data'
              /\ suppliers_data'[k] =
                    [suppliers_data[k] EXCEPT !["Stock Balance"] =
                                                 @ + (observed'[k] - observed[k])]
        /\ \A k \in DOMAIN suppliers_data' \ DOMAIN suppliers_data :
              /\ k \notin DOMAIN observed
              /\ suppliers_data'[k]["Supplier"] = "No Supplier"
              /\ suppliers_data'[k]["Stock Balance"] = observed'[k]
              /\ RowKey(suppliers_data'[k]) = k]_vars

\* C14 witness: the stock walk is over; the record that supplier A created for
\* (P1, M) from product "Shirt v2" has kept its supplier and name although
\* warehouse entries of product "Shirt" raised its stock balance, and the
\* warehouse-only key (P2, N/A) has supplier "No Supplier" and balance -1.
C14_Witness ==
    /\ pc = "fetch_costs"
    /\ <<"P1", "M">> \in DOMAIN suppliers_data
    /\ suppliers_data[<<"P1", "M">>]["Supplier"] = "A"
    /\ suppliers_data[<<"P1", "M">>]["Product Name"] = "Shirt v2"
    /\ suppliers_data[<<"P1", "M">>]["Stock Balance"] = 3
    /\ <<"P2", "N/A">> \in DOMAIN suppliers_data
    /\ suppliers_data[<<"P2", "N/A">>]["Supplier"] = "No Supplier"
    /\ suppliers_data[<<"P2", "N/A">>]["Stock Balance"] = -1

\* the stock balance of key k in the map `data`, 0 when the map has no record of it
BalanceOf(data, k) == IF k \in DOMAIN data THEN data[k]["Stock Balance"] ELSE 0

\* the quantity reported so far for key k, 0 when it was never reported
ObservedOf(obs, k) == IF k \in DOMAIN obs THEN obs[k] ELSE 0

\* the variants of one supplier are being reconciled
VariantsReconciled == pc = "reconcile"

\* C15 as stated: when the variants of a supplier are reconciled, the map
\* holds a record for (product, "N/A") of every variant without size entries
\* and one record for each distinct size of every variant with size entries,
\* and the stock balance of each of these keys has grown by the sum of the
\* quantities the variants reported for it.
C15_VariantRecordsSumReportedQuantities ==
    [][VariantsReconciled =>
        /\ DOMAIN suppliers_data' = DOMAIN observed'
        /\ \A k \in DOMAIN observed' :
              BalanceOf(suppliers_data', k) - BalanceOf(suppliers_data, k)
                 = ObservedOf(observed', k) - ObservedOf(observed, k)]_vars

\* the part of it about the keys alone: one record for each key the variants
\* name, (product, "N/A") for a variant without size entries
VariantRecordsPerDistinctSize ==
    [][VariantsReconciled =>
        /\ DOMAIN suppliers_data' = DOMAIN observed'
        /\ \A k \in DOMAIN suppliers_data' : RowKey(suppliers_data'[k]) = k]_vars

\* the loop is at a supplier whose identifier int() cannot parse
AtUnparsableSupplier ==
    /\ pc = "for_supplier"
    /\ supplier_idx <= Len(suppliers)
    /\ ~IsIntString(suppliers[supplier_idx].id)

\* C16: a supplier whose identifier cannot be parsed as an integer is skipped
\* with a warning naming it: no request is issued for it, the inventory map
\* is left as it was, the loop goes on with the next supplier, and nothing is
\* returned or raised because of it; a variants walk is only ever started for
\* a supplier whose identifier parses.
C16_UnparsableSupplierIsSkipped ==
    /\ [][AtUnparsableSupplier =>
            /\ warnings' = warnings \cup {suppliers[supplier_idx].id}
            /\ last_request' = last_request
            /\ suppliers_data' = suppliers_data
            /\ pc' = "for_supplier"
            /\ suppliers' = suppliers
            /\ supplier_idx' = supplier_idx + 1
            /\ result' = Pending
            /\ failed' = failed]_vars
    /\ [](pc \in {"fetch_variants", "reconcile"}
            => IsIntString(suppliers[supplier_idx].id))
    /\ [](\A id \in warnings : ~IsIntString(id))

\* C16 witness: the first supplier, "x7", was skipped with a warning and the
\* variants of the second supplier have been fetched and are being reconciled.
C16_Witness ==
    /\ pc = "reconcile"
    /\ warnings = {"x7"}
    /\ supplier_idx = 2
    /\ suppliers[1].id = "x7"
    /\ variants # <<>>
    /\ last_request.stage = "variants"

\* the unit cost of the first listed variant of product p when it has one and
\* its unit cost is not null, 0 otherwise
FirstVariantCost(p) ==
    IF Len(p.variants) >= 1 /\ p.variants[1].unitCost # NULL
    THEN p.variants[1].unitCost.value
    ELSE 0

\* the positions in the page of the products with ProductID k
ListedAs(products, k) == { i \in 1..Len(products) : Norm(products[i].id) = k }

\* the greatest element of a non-empty set of numbers
Last(S) == CHOOSE i \in S : \A j \in S : j <= i

\* C17: (a) after each page of the costs walk, the lookup maps the ProductID of
\* every product of the page to the unit cost of that product's first listed
\* variant, or to 0 when it has no variant or the variant's unit cost is null
\* (the product listed last, when a page lists a ProductID twice), and is
\* unchanged for every other ProductID; (b) every row of the inventory table
\* carries the cost the lookup maps its ProductID to, or 0 when the lookup
\* has no entry for it (or could not be fetched); (c) so the unit cost of
\* every row is a number >= 0.
C17_UnitCostFromFirstVariant ==
    /\ [][(pc = "fetch_costs" /\ last_request'.ok) =>
            /\ \A i \in 1..Len(cost_page') :
                  LET k == Norm(cost_page'[i].id)
                  IN /\ k \in DOMAIN cost_dict'.v
                     /\ cost_dict'.v[k] =
                           FirstVariantCost(cost_page'[Last(ListedAs(cost_page', k))])
            /\ \A k \in DOMAIN cost_dict'.v :
                  ListedAs(cost_page', k) = {} =>
                     (k \in DOMAIN cost_dict.v /\ cost_dict'.v[k] = cost_dict.v[k])]_vars
    /\ [][(pc = "build_df") =>
            \A i \in 1..Len(products_df'.v.rows) :
               LET row == products_df'.v.rows[i]
               IN /\ row["Inkopspris"] =
                       (IF ~IsNone(cost_dict) /\ row["ProductID"] \in DOMAIN cost_dict.v
                        THEN cost_dict.v[row["ProductID"]]
                        ELSE 0)
                  /\ row["Inkopspris"] \in Nat]_vars

\* C17 witness: the costs walk listed one product, whose first variant costs
\* 5 and whose second costs 9; the inventory table has a row of that product
\* with unit cost 5 and a row of a product the lookup does not hold with
\* unit cost 0.
C17_Witness ==
    /\ pc = "fetch_sales"
    /\ last_request.stage = "costs"
    /\ last_request.ok
    /\ last_request.total = 1
    /\ \E i \in 1..Len(products_df.v.rows) :
          /\ products_df.v.rows[i]["ProductID"] = "P1"
          /\ products_df.v.rows[i]["Inkopspris"] = 5
    /\ \E i \in 1..Len(products_df.v.rows) :
          /\ products_df.v.rows[i]["ProductID"] = "P2"
          /\ products_df.v.rows[i]["Inkopspris"] = 0

\* C18 as stated: a page of the warehouse stock walk that was merged is
\* followed by a request for the next page unless the response held fewer
\* stock entries than the page limit, and when the walk ends without error
\* every stock entry of every warehouse has been fetched and merged.
C18_EveryWarehouseIsWalkedToItsEnd ==
    /\ [][StockPageMerged => (pc' # pc <=> last_request'.items < PageLimit)]_vars
    /\ [][(StockPageMerged /\ pc' # pc) =>
            gathered + last_request'.items = last_request'.total]_vars

\* the second half of it alone: no stock entry is left unfetched
NoStockEntryLeftUnfetched ==
    [][(StockPageMerged /\ pc' # pc) =>
            gathered + last_request'.items = last_request'.total]_vars

\* the number of items of the data set the running walk pages through; the
\* warehouse stock walk is paged by the stock of the first warehouse
WalkedItems ==
    IF pc = "fetch_stock" THEN (IF wh_total = <<>> THEN 0 ELSE wh_total[1]) ELSE total

\* C19: every page-walking loop terminates. Over a data set of n items served
\* in slices of `limit` a walk never requests a page beyond n / limit + 1, a
\* failing request is the last request of its walk, and so every walk that
\* has started comes to its end.
C19_EveryWalkTerminates ==
    /\ [](pc \in WalkPcs => (page >= 1 /\ page <= (WalkedItems \div PageLimit) + 1))
    /\ [][(pc \in WalkPcs /\ ~last_request'.ok) =>
            (pc' # pc /\ last_request'.last /\ last_request'.page = page)]_vars
    /\ <>(pc \notin WalkPcs)

\* C19 witness: the costs walk over a data set of exactly `limit` products has
\* returned after its second request, which was answered by an empty page.
C19_Witness ==
    /\ pc = "build_df"
    /\ last_request.stage = "costs"
    /\ last_request.ok
    /\ last_request.last
    /\ last_request.page = 2
    /\ last_request.total = PageLimit
    /\ last_request.items = 0

\* the pipeline's cell p and the export's cell e show the same Days to Zero:
\* both empty, or the same integer
SameDaysToZero(p, e) ==
    \/ p = NoneStr /\ e = EmptyCell
    \/ e.tag = "int" /\ p = ToString(e.v)

\* C20: for every exported row, the export and the pipeline give the same
\* Days to Zero when the stock balance is >= 0 (and when there are no sales);
\* on a row with sales and a negative stock balance, and on no other row,
\* they differ: the pipeline's value is empty and the export's is
\* round(stock balance / average daily sales).
C20_ExportDiffersOnNegativeStockOnly ==
    pc = "exported" =>
        /\ Len(sheet_df.rows) = Len(result.v.rows)
        /\ \A j \in Indices(sheet_df.rows) :
              LET p == result.v.rows[j]["Days to Zero"]
                  e == sheet_df.rows[j]["Days to Zero"]
                  balance == sheet_df.rows[j]["Stock Balance"]
                  sales == sheet_df.rows[j]["Avg Daily Sales"]
              IN /\ balance = result.v.rows[j]["Stock Balance"]
                 /\ sales = result.v.rows[j]["Avg Daily Sales"]
                 /\ balance >= 0 => SameDaysToZero(p, e)
                 /\ ~SameDaysToZero(p, e) => balance < 0
                 /\ (balance < 0 /\ sales > 0) =>
                       /\ p = NoneStr
                       /\ e.tag = "int"
                       /\ IsRounded(e.v, 10 * balance, sales)
                 /\ (balance < 0 /\ sales = 0) => SameDaysToZero(p, e)

\* C20 witness: an exported row with stock balance -3 and 1.5 sales a day:
\* empty in the pipeline's table, -2 in the exported one.
C20_Witness ==
    /\ pc = "exported"
    /\ \E j \in Indices(sheet_df.rows) :
          /\ sheet_df.rows[j]["Stock Balance"] = -3
          /\ sheet_df.rows[j]["Avg Daily Sales"] = 15
          /\ result.v.rows[j]["Days to Zero"] = NoneStr
          /\ sheet_df.rows[j]["Days to Zero"] = IntCell(-2)


\* the (ProductID, Size) keys a list of variants names
KeysNamed(vs) == DOMAIN ObserveVariants(EmptyDict, vs)

Reverse(s) == [i \in 1..Len(s) |-> s[Len(s) + 1 - i]]

\* the name of the first entry of `entries` whose variants name key k
FirstSupplying(entries, k) ==
    LET i == CHOOSE i \in 1..Len(entries) :
                 /\ k \in KeysNamed(entries[i].variants)
                 /\ \A j \in 1..(i - 1) : k \notin KeysNamed(entries[j].variants)
    IN entries[i].name

\* the entries that name key k
Supplying(entries, k) == { i \in 1..Len(entries) : k \in KeysNamed(entries[i].variants) }

\* suppliers_data after `for supplier in suppliers:` took the suppliers in the
\* order of `entries`
RECURSIVE reconcile_suppliers(_, _)
reconcile_suppliers(data, entries) ==
    IF entries = <<>> THEN data
    ELSE reconcile_suppliers(
             IF Head(entries).variants = <<>> THEN data
             ELSE reconcile_variants(data, Head(entries).name, Head(entries).variants),
             Tail(entries))

\* the attributes of a record other than its stock balance
Attributes(record) == [f \in DOMAIN record \ {"Stock Balance"} |-> record[f]]

\* the loop over the suppliers is between two suppliers, or past the last
BetweenSuppliers == pc = "for_supplier"

\* C21: reconciling a supplier's variants leaves every record that was there
\* with its ProductID, Product Name, Product Number, Status, Is Bundle, Supplier
\* and Size (at most its Stock Balance changes) and gives the records it
\* creates the name of the supplier at hand; so between two suppliers every
\* record carries the name of the first supplier processed that supplied its
\* key, and had the same suppliers been taken in the reverse order the keys
\* and every stock balance would be the same, while each record would carry
\* the name of the last supplier that supplied its key
C21_FirstSupplierKeepsAttributes ==
    /\ [][VariantsReconciled =>
            /\ \A k \in DOMAIN suppliers_data :
                   /\ k \in DOMAIN suppliers_data'
                   /\ Attributes(suppliers_data'[k]) = Attributes(suppliers_data[k])
            /\ \A k \in DOMAIN suppliers_data' \ DOMAIN suppliers_data :
                   suppliers_data'[k]["Supplier"] = suppliers[supplier_idx].name]_vars
    /\ [](BetweenSuppliers =>
            LET reversed == reconcile_suppliers(EmptyDict, Reverse(supplied))
            IN /\ DOMAIN reversed = DOMAIN suppliers_data
               /\ \A k \in DOMAIN suppliers_data :
                      /\ suppliers_data[k]["Supplier"] = FirstSupplying(supplied, k)
                      /\ reversed[k]["Supplier"] = FirstSupplying(Reverse(supplied), k)
                      /\ reversed[k]["Stock Balance"] = suppliers_data[k]["Stock Balance"])

\* two suppliers with different names supplied the same key: the record has the
\* name of the first, and would have the name of the second in the other order
C21_Witness ==
    /\ BetweenSuppliers
    /\ Len(supplied) = 2
    /\ supplied[1].name # supplied[2].name
    /\ \E k \in DOMAIN suppliers_data :
           /\ Supplying(supplied, k) = {1, 2}
           /\ suppliers_data[k]["Supplier"] = supplied[1].name
           /\ reconcile_suppliers(EmptyDict, Reverse(supplied))[k]["Supplier"]
                  = supplied[2].name

====
